---- MODULE Spec2Model ----
(***************************************************************************)
(* Model of src/main.py: the Conversation store, create_message_content,   *)
(* the retry loop of get_response and the session loop of main.            *)
(*                                                                         *)
(* A text is a record [chars, rep]: the characters of `chars` followed by  *)
(* `rep` copies of the letter "a" (which lets a text of MAX_TOKENS         *)
(* characters be written down).  A raw input line additionally carries     *)
(* `post` trailing blanks.                                                 *)
(***************************************************************************)
EXTENDS Integers, Sequences, FiniteSets, TLC

VARIABLES
    history,      \* Conversation.history: sequence of turns [role, text]
    pc,           \* position of main: "read", "attempt", "done"; "api" for direct store use
    user_input,   \* main: the trimmed line of this iteration
    attempt,      \* get_response: loop index of range(MAX_RETRIES)
    data,         \* get_response: the payload built before the loop
    sent,         \* the payloads posted during the current call, in order
    sleeps,       \* the durations slept during the current call, in order
    results,      \* the per-attempt results received during the current call
    outcome,      \* what get_response returned in this iteration
    hist0,        \* the history when this iteration started
    log,          \* [prompt, reply] of the exchanges that returned text since the last clear
    printed,      \* what main printed last
    lastOp,       \* last store operation applied by a direct caller
    view          \* the list a direct caller got from get_messages and still holds

vars == <<history, pc, user_input, attempt, data, sent, sleeps, results,
          outcome, hist0, log, printed, lastOp, view>>

----------------------------------------------------------------------------
(* Program constants *)

MAX_TOKENS == 30720
RATE_LIMIT_DELAY == 1
MAX_RETRIES == 3

(* Bounds of the model *)

MaxPairs == 2       \* prompts are read while the history holds fewer pairs
MaxStoreLen == 2    \* direct store callers append while the history is shorter

----------------------------------------------------------------------------
(* Texts *)

Text(cs, n) == [chars |-> cs, rep |-> n]

TextLen(t) == Len(t.chars) + t.rep

LowerChar(c) ==
    CASE c = "Q" -> "q" [] c = "U" -> "u" [] c = "I" -> "i" [] c = "T" -> "t"
      [] c = "E" -> "e" [] c = "X" -> "x" [] c = "C" -> "c" [] c = "L" -> "l"
      [] c = "A" -> "a" [] c = "R" -> "r" [] c = "H" -> "h"
      [] OTHER -> c

\* str.lower()
Lower(t) == Text([i \in DOMAIN t.chars |-> LowerChar(t.chars[i])], t.rep)

RECURSIVE DropLeading(_)
DropLeading(cs) ==
    IF cs # <<>> /\ Head(cs) = " " THEN DropLeading(Tail(cs)) ELSE cs

RECURSIVE DropTrailing(_)
DropTrailing(cs) ==
    IF cs # <<>> /\ cs[Len(cs)] = " "
    THEN DropTrailing(SubSeq(cs, 1, Len(cs) - 1))
    ELSE cs

\* str.strip() of a raw line
Strip(line) ==
    LET c1 == DropLeading(line.chars)
    IN  Text(IF line.rep = 0 THEN DropTrailing(c1) ELSE c1, line.rep)

Raw(cs, n, p) == [chars |-> cs, rep |-> n, post |-> p]

RawLines ==
    { Raw(<<>>, 0, 0),                                  \* ""
      Raw(<<" ">>, 0, 1),                               \* blanks only
      Raw(<<"q", "u", "i", "t">>, 0, 0),                \* "quit"
      Raw(<<" ", "E", "X", "I", "T">>, 0, 1),           \* " EXIT "
      Raw(<<"C", "l", "e", "a", "r">>, 0, 0),           \* "Clear"
      Raw(<<"c", "l", "e", "a", "r", " ">>, 0, 0),      \* "clear "
      Raw(<<"h", "i">>, 0, 0),                          \* "hi"
      Raw(<<" ", "#", "h">>, 0, 1),                     \* " #h "
      Raw(<<"h">>, MAX_TOKENS - 1, 0),                  \* MAX_TOKENS characters
      Raw(<<" ", "h">>, MAX_TOKENS - 1, 1),             \* MAX_TOKENS after trimming
      Raw(<<"h">>, MAX_TOKENS, 0),                      \* MAX_TOKENS + 1 characters
      Raw(<<"q", "u", "i", "t">>, MAX_TOKENS, 0) }      \* "quitaaa...", too long

ReplyTexts ==
    { Text(<<>>, 0),                        \* ""
      Text(<<"o", "k">>, 0),                \* "ok"
      Text(<<"*", "b">>, 0),                \* "*b", has a markdown symbol
      Text(<<"[", "/", "b", "]">>, 0) }     \* "[/b]", reads as a console markup closing tag

----------------------------------------------------------------------------
(* Conversation *)

Turn(role, content) == [role |-> role, text |-> content]

\* Conversation.add_message
add_message(h, role, content) == Append(h, Turn(role, content))

\* Conversation.get_messages
get_messages(h) == h

\* clear that drops only the most recent turn
clear_DropsLast(h) == IF h = <<>> THEN <<>> ELSE SubSeq(h, 1, Len(h) - 1)

\* Conversation.clear
clear(h) == <<>>

(* A held reference to the list object that get_messages returned: `live`  *)
(* tells whether that object is still the one Conversation.history names,   *)
(* `items` is what the holder reads through the reference now, `taken` what *)
(* the list held when it was returned.                                      *)

NoView == [held |-> FALSE, live |-> FALSE, items |-> <<>>, taken |-> <<>>]

\* line 34: return self.history, the list object itself
ViewOf(h) == [held |-> TRUE, live |-> TRUE, items |-> h, taken |-> h]

\* line 31: list.append changes the list object in place
ViewAfterAppend(v, h) == IF v.held /\ v.live THEN [v EXCEPT !.items = h] ELSE v

\* line 37: self.history = [] binds the attribute to a new list object
ViewAfterRebind(v) == [v EXCEPT !.live = FALSE]

----------------------------------------------------------------------------
(* create_message_content *)

Entry(role, text) == [role |-> role, parts |-> << [text |-> text] >>]

\* the stored turns left out of the payload
create_message_content_NoHistory(h, new_message) ==
    [contents |-> <<Entry("user", new_message)>>]

\* the new message placed before the history instead of after it
create_message_content_NewFirst(h, new_message) ==
    LET msgs == get_messages(h)
        contents == [i \in 1..Len(msgs) |-> Entry(msgs[i].role, msgs[i].text)]
    IN  [contents |-> <<Entry("user", new_message)>> \o contents]

create_message_content(h, new_message) ==
    LET msgs == get_messages(h)
        contents == [i \in 1..Len(msgs) |-> Entry(msgs[i].role, msgs[i].text)]
    IN  [contents |-> Append(contents, Entry("user", new_message))]

NoPayload == [contents |-> <<>>]

----------------------------------------------------------------------------
(* What one attempt of requests.post can produce *)

\* A response body.  json: "ok" when response.json() decodes it, otherwise
\* the class of the exception response.json() raises: the JSONDecodeError of
\* requests >= 2.27 is a RequestException, the one older versions raise is a
\* plain ValueError; the source pins no version.
\* pf: the promptFeedback field; cand: how far candidates[0].content.parts[0].text
\* exists; text: that text.
Body(j, pf, cand, text) == [json |-> j, pf |-> pf, cand |-> cand, text |-> text]

NoText == Text(<<>>, 0)

BadJson == { Body(j, "absent", "absent", NoText) : j \in {"RequestException", "ValueError"} }

PromptFeedbacks == {"absent", "noReason", "blocked"}

NoTextShapes == {"absent", "empty", "nocontent", "noparts", "emptyparts", "notext"}

Bodies ==
    BadJson
    \cup { Body("ok", pf, c, NoText) : pf \in PromptFeedbacks, c \in NoTextShapes }
    \cup { Body("ok", pf, "text", t) : pf \in PromptFeedbacks, t \in ReplyTexts }

ErrBody == Body("ok", "absent", "absent", NoText)

Response(s, b) == [kind |-> "response", status |-> s, body |-> b]

TransportFailure == [kind |-> "transport", status |-> 0, body |-> ErrBody]

Results ==
    { TransportFailure }
    \cup { Response(200, b) : b \in Bodies }
    \cup { Response(s, ErrBody) : s \in {404, 429} }
    \cup { Response(500, b) : b \in BadJson \cup {ErrBody} }

----------------------------------------------------------------------------
(* get_response *)

Outcome(k, t, s, b) == [kind |-> k, text |-> t, status |-> s, body |-> b]

NoOutcome == Outcome("None", NoText, 0, ErrBody)

\* The result of one pass through the loop body: either the call returns
\* `ret`, or it sleeps `sleep` seconds and continues; `exc` is the exception
\* that left the inner try block, if any.
Return(o, h)      == [next |-> "return", ret |-> o, sleep |-> 0, exc |-> "none", msg |-> "", history |-> h]
Continue(secs, h) == [next |-> "continue", ret |-> NoOutcome, sleep |-> secs, exc |-> "none", msg |-> "", history |-> h]
Raise(e, m, h)    == [next |-> "raise", ret |-> NoOutcome, sleep |-> 0, exc |-> e, msg |-> m, history |-> h]

\* the reply stored before the prompt
Interpret_ModelFirst(body, prompt, h) ==
    IF body.json # "ok" THEN Raise(body.json, "Expecting value", h)
    ELSE IF body.pf = "blocked" THEN Return(Outcome("SafetyBlocked", NoText, 200, body), h)
    ELSE IF body.cand \in {"absent", "empty"} THEN Return(Outcome("Empty", NoText, 200, body), h)
    ELSE IF body.cand = "nocontent" THEN Raise("KeyError", "'content'", h)
    ELSE IF body.cand \in {"noparts", "emptyparts"} THEN Return(Outcome("Empty", NoText, 200, body), h)
    ELSE IF body.cand = "notext" THEN Raise("KeyError", "'text'", h)
    ELSE Return(Outcome("Success", body.text, 200, body),
                add_message(add_message(h, "model", body.text), "user", prompt))

\* the prompt stored as soon as the body has candidates, before the reply is extracted
Interpret_UserFirst(body, prompt, h) ==
    LET h1 == add_message(h, "user", prompt)
    IN  IF body.json # "ok" THEN Raise(body.json, "Expecting value", h)
        ELSE IF body.pf = "blocked" THEN Return(Outcome("SafetyBlocked", NoText, 200, body), h)
        ELSE IF body.cand \in {"absent", "empty"} THEN Return(Outcome("Empty", NoText, 200, body), h)
        ELSE IF body.cand = "nocontent" THEN Raise("KeyError", "'content'", h1)
        ELSE IF body.cand \in {"noparts", "emptyparts"} THEN Return(Outcome("Empty", NoText, 200, body), h1)
        ELSE IF body.cand = "notext" THEN Raise("KeyError", "'text'", h1)
        ELSE Return(Outcome("Success", body.text, 200, body),
                    add_message(h1, "model", body.text))

\* the candidates decoded before the safety feedback is looked at
Interpret_CandidatesFirst(body, prompt, h) ==
    IF body.json # "ok" THEN Raise(body.json, "Expecting value", h)
    ELSE IF body.cand = "nocontent" THEN Raise("KeyError", "'content'", h)
    ELSE IF body.cand = "notext" THEN Raise("KeyError", "'text'", h)
    ELSE IF body.cand = "text"
         THEN Return(Outcome("Success", body.text, 200, body),
                     add_message(add_message(h, "user", prompt), "model", body.text))
    ELSE IF body.pf = "blocked" THEN Return(Outcome("SafetyBlocked", NoText, 200, body), h)
    ELSE Return(Outcome("Empty", NoText, 200, body), h)

\* the length checks of lines 89 and 91 left out: indexing an empty list raises
Interpret_NoLenCheck(body, prompt, h) ==
    IF body.json # "ok" THEN Raise(body.json, "Expecting value", h)
    ELSE IF body.pf = "blocked" THEN Return(Outcome("SafetyBlocked", NoText, 200, body), h)
    ELSE IF body.cand = "absent" THEN Return(Outcome("Empty", NoText, 200, body), h)
    ELSE IF body.cand = "empty" THEN Raise("IndexError", "list index out of range", h)
    ELSE IF body.cand = "nocontent" THEN Raise("KeyError", "'content'", h)
    ELSE IF body.cand = "noparts" THEN Return(Outcome("Empty", NoText, 200, body), h)
    ELSE IF body.cand = "emptyparts" THEN Raise("IndexError", "list index out of range", h)
    ELSE IF body.cand = "notext" THEN Raise("KeyError", "'text'", h)
    ELSE Return(Outcome("Success", body.text, 200, body),
                add_message(add_message(h, "user", prompt), "model", body.text))

\* lines 82-96: decoding the body of a 200 response
Interpret(body, prompt, h) ==
    IF body.json # "ok" THEN Raise(body.json, "Expecting value", h)
    ELSE IF body.pf = "blocked" THEN Return(Outcome("SafetyBlocked", NoText, 200, body), h)
    ELSE IF body.cand \in {"absent", "empty"} THEN Return(Outcome("Empty", NoText, 200, body), h)
    ELSE IF body.cand = "nocontent" THEN Raise("KeyError", "'content'", h)
    ELSE IF body.cand \in {"noparts", "emptyparts"} THEN Return(Outcome("Empty", NoText, 200, body), h)
    ELSE IF body.cand = "notext" THEN Raise("KeyError", "'text'", h)
    ELSE Return(Outcome("Success", body.text, 200, body),
                add_message(add_message(h, "user", prompt), "model", body.text))

\* the last attempt counted as one that may still be retried
AttemptsRemain_All(i) == i < MAX_RETRIES

\* lines 100, 108: attempt < MAX_RETRIES - 1
AttemptsRemain(i) == i < MAX_RETRIES - 1

\* a flat delay after 429
Backoff_Flat(i) == RATE_LIMIT_DELAY

\* line 101
Backoff(i) == RATE_LIMIT_DELAY * (i + 1)

\* 429 retried without looking at the attempt index
OnStatus_AlwaysRetry429(r, i, h) ==
    IF r.status = 404 THEN Return(Outcome("ModelNotFound", NoText, 404, r.body), h)
    ELSE IF r.status = 429 THEN Continue(Backoff(i), h)
    ELSE Return(Outcome("HttpError", NoText, r.status, r.body), h)

\* every status from 429 up treated as retryable
OnStatus_RetryServerErrors(r, i, h) ==
    IF r.status = 404 THEN Return(Outcome("ModelNotFound", NoText, 404, r.body), h)
    ELSE IF r.status >= 429
         THEN IF AttemptsRemain(i) THEN Continue(Backoff(i), h)
              ELSE Return(Outcome("RateLimited", NoText, 429, r.body), h)
    ELSE Return(Outcome("HttpError", NoText, r.status, r.body), h)

\* lines 97-105: a status other than 200
OnStatus(r, i, h) ==
    IF r.status = 404 THEN Return(Outcome("ModelNotFound", NoText, 404, r.body), h)
    ELSE IF r.status = 429
         THEN IF AttemptsRemain(i) THEN Continue(Backoff(i), h)
              ELSE Return(Outcome("RateLimited", NoText, 429, r.body), h)
    ELSE Return(Outcome("HttpError", NoText, r.status, r.body), h)

\* the linear backoff of 429 used for transport failures too
OnRequestException_Linear(i, h) ==
    IF AttemptsRemain(i) THEN Continue(Backoff(i), h)
    ELSE Return(Outcome("NetworkError", NoText, 0, ErrBody), h)

\* lines 107-111: except requests.exceptions.RequestException
OnRequestException(i, h) ==
    IF AttemptsRemain(i) THEN Continue(RATE_LIMIT_DELAY, h)
    ELSE Return(Outcome("NetworkError", NoText, 0, ErrBody), h)

\* the messages, among those raised, that contain "API key"
ApiKeyMessages == {}

\* lines 113-118: except Exception
OnException(m, h) ==
    IF m \in ApiKeyMessages THEN Return(Outcome("ApiKeyError", NoText, 0, ErrBody), h)
    ELSE Return(Outcome("Error", NoText, 0, ErrBody), h)

\* lines 78-118: one pass through the loop body with result r
LoopBody(r, i, prompt, h) ==
    LET d == IF r.kind = "transport" THEN Raise("RequestException", "connection", h)
             ELSE IF r.status = 200 THEN Interpret(r.body, prompt, h)
             ELSE OnStatus(r, i, h)
    IN  IF d.next # "raise" THEN d
        ELSE IF d.exc = "RequestException" THEN OnRequestException(i, d.history)
        ELSE OnException(d.msg, d.history)

\* line 120
Fallback(h) == Return(Outcome("Fallback", NoText, 0, ErrBody), h)

----------------------------------------------------------------------------
(* main *)

Quit  == Text(<<"q", "u", "i", "t">>, 0)
Exit  == Text(<<"e", "x", "i", "t">>, 0)
Clear == Text(<<"c", "l", "e", "a", "r">>, 0)

\* line 156: not user_input
IsBlank(t) == TextLen(t) = 0

\* the comparison made without lower()
IsQuit_CaseSensitive(t) == t \in {Quit, Exit}

\* line 159
IsQuit(t) == Lower(t) \in {Quit, Exit}

\* line 163
IsClear(t) == Lower(t) = Clear

\* the length check written with >=
TooLong_AtLeast(t) == TextLen(t) >= MAX_TOKENS

\* line 169
TooLong(t) == TextLen(t) > MAX_TOKENS

IsPrompt(t) == ~IsBlank(t) /\ ~IsQuit(t) /\ ~IsClear(t) /\ ~TooLong(t)

\* lines 179-186: what main prints for the value get_response returned
Render(o) ==
    IF o.kind = "Success" /\ TextLen(o.text) = 0 THEN "EmptyResponse" ELSE "Response"

\* console.print reads "[/name]" in a string as a closing markup tag and
\* raises MarkupError when no such tag is open
UnmatchedClosingTag(t) ==
    \E i \in 1..Len(t.chars) :
        /\ t.chars[i] = "["
        /\ i + 2 <= Len(t.chars)
        /\ t.chars[i + 1] = "/"
        /\ \E j \in (i + 2)..Len(t.chars) : t.chars[j] = "]"
        /\ \A k \in 1..(i - 1) : t.chars[k] # "["

\* line 182: console.print of the returned text raises; the messages that
\* get_response builds itself carry no markup tag
PrintRaises(o) ==
    o.kind = "Success" /\ TextLen(o.text) > 0 /\ UnmatchedClosingTag(o.text)

\* line 192: the handler prints str(e) between [red] and [/red]; the message
\* of a MarkupError quotes the offending tag, so printing it raises again
HandlerRaises(o) == PrintRaises(o)

\* lines 191-192: except Exception in the loop of main
OnLoopException(raisesAgain) ==
    IF raisesAgain THEN [pc |-> "crashed", printed |-> "Traceback"]
    ELSE [pc |-> "read", printed |-> "UnexpectedError"]

\* lines 179-192: main after get_response returned o
AfterCall(o) ==
    IF PrintRaises(o) THEN OnLoopException(HandlerRaises(o))
    ELSE [pc |-> "read", printed |-> Render(o)]

Init ==
    /\ history = <<>>
    /\ pc = "read"
    /\ user_input = NoText
    /\ attempt = 0
    /\ data = NoPayload
    /\ sent = <<>>
    /\ sleeps = <<>>
    /\ results = <<>>
    /\ outcome = NoOutcome
    /\ hist0 = <<>>
    /\ log = <<>>
    /\ printed = "Welcome"
    /\ lastOp = "none"
    /\ view = NoView

\* lines 153-176: one line is read and dispatched, up to the call of get_response
ReadLine(line) ==
    /\ pc = "read"
    /\ IsPrompt(Strip(line)) => Len(history) < 2 * MaxPairs
    /\ LET ui == Strip(line)
       IN  /\ user_input' = ui
           /\ hist0' = history
           /\ attempt' = 0
           /\ sent' = <<>>
           /\ sleeps' = <<>>
           /\ results' = <<>>
           /\ outcome' = NoOutcome
           /\ IF IsBlank(ui)
              THEN /\ pc' = "read"
                   /\ printed' = "You:"
                   /\ UNCHANGED <<history, log>>
                   /\ data' = NoPayload
              ELSE IF IsQuit(ui)
              THEN /\ pc' = "done"
                   /\ printed' = "Goodbye"
                   /\ UNCHANGED <<history, log>>
                   /\ data' = NoPayload
              ELSE IF IsClear(ui)
              THEN /\ pc' = "read"
                   /\ history' = clear(history)
                   /\ log' = <<>>
                   /\ printed' = "Cleared"
                   /\ data' = NoPayload
              ELSE IF TooLong(ui)
              THEN /\ pc' = "read"
                   /\ printed' = "TooLong"
                   /\ UNCHANGED <<history, log>>
                   /\ data' = NoPayload
              ELSE /\ pc' = "attempt"
                   /\ printed' = "Chatbot:"
                   /\ UNCHANGED <<history, log>>
                   /\ data' = create_message_content(history, ui)
    /\ UNCHANGED <<lastOp, view>>

\* lines 77-120 and 177-186: one attempt of get_response receiving result r;
\* when the call returns, main prints the response
Attempt(r) ==
    /\ pc = "attempt"
    /\ LET inLoop == attempt < MAX_RETRIES
           d == IF inLoop THEN LoopBody(r, attempt, user_input, history)
                ELSE Fallback(history)
       IN  /\ sent' = IF inLoop THEN Append(sent, data) ELSE sent
           /\ results' = IF inLoop THEN Append(results, r) ELSE results
           /\ history' = d.history
           /\ IF d.next = "continue"
              THEN /\ sleeps' = Append(sleeps, d.sleep)
                   /\ attempt' = attempt + 1
                   /\ UNCHANGED <<pc, outcome, log, printed>>
              ELSE /\ outcome' = d.ret
                   /\ pc' = AfterCall(d.ret).pc
                   /\ printed' = AfterCall(d.ret).printed
                   /\ log' = IF d.ret.kind = "Success"
                             THEN Append(log, [prompt |-> user_input, reply |-> d.ret.text])
                             ELSE log
                   /\ UNCHANGED <<sleeps, attempt>>
    /\ UNCHANGED <<user_input, data, hist0, lastOp, view>>

\* lines 154, 191-192: input() raises (end of input); the handler prints the
\* message and the loop goes on
InputFails ==
    /\ pc = "read"
    /\ pc' = OnLoopException(FALSE).pc
    /\ printed' = OnLoopException(FALSE).printed
    /\ user_input' = NoText
    /\ hist0' = history
    /\ attempt' = 0
    /\ data' = NoPayload
    /\ sent' = <<>>
    /\ sleeps' = <<>>
    /\ results' = <<>>
    /\ outcome' = NoOutcome
    /\ UNCHANGED <<history, log, lastOp, view>>

\* lines 188-190: KeyboardInterrupt
Interrupt ==
    /\ pc \in {"read", "attempt"}
    /\ pc' = "done"
    /\ printed' = "Goodbye"
    /\ UNCHANGED <<history, user_input, attempt, data, sent, sleeps, results,
                   outcome, hist0, log, lastOp, view>>

Next ==
    \/ \E line \in RawLines : ReadLine(line)
    \/ \E r \in Results : Attempt(r)
    \/ InputFails
    \/ Interrupt

Spec == Init /\ [][Next]_vars

----------------------------------------------------------------------------
(* The Conversation store and the request builder used directly: any role  *)
(* in any order, any text.                                                 *)

Roles == {"user", "model"}

StoreTexts == { Text(<<"h", "i">>, 0), Text(<<"o", "k">>, 0) }

InitStore ==
    /\ history = <<>>
    /\ pc = "api"
    /\ user_input = NoText
    /\ attempt = 0
    /\ data = NoPayload
    /\ sent = <<>>
    /\ sleeps = <<>>
    /\ results = <<>>
    /\ outcome = NoOutcome
    /\ hist0 = <<>>
    /\ log = <<>>
    /\ printed = "none"
    /\ lastOp = "none"
    /\ view = NoView

StoreFrame == UNCHANGED <<pc, attempt, sent, sleeps, results, outcome, log, printed>>

StoreAdd(role, t) ==
    /\ pc = "api"
    /\ Len(history) < MaxStoreLen
    /\ hist0' = history
    /\ history' = add_message(history, role, t)
    /\ lastOp' = "add"
    /\ view' = ViewAfterAppend(view, history')
    /\ user_input' = NoText
    /\ data' = NoPayload
    /\ StoreFrame

StoreClear ==
    /\ pc = "api"
    /\ hist0' = history
    /\ history' = clear(history)
    /\ lastOp' = "clear"
    /\ view' = ViewAfterRebind(view)
    /\ user_input' = NoText
    /\ data' = NoPayload
    /\ StoreFrame

StoreBuild(t) ==
    /\ pc = "api"
    /\ hist0' = history
    /\ user_input' = t
    /\ data' = create_message_content(history, t)
    /\ lastOp' = "build"
    /\ UNCHANGED <<history, view>>
    /\ StoreFrame

\* a caller calls get_messages and keeps what it returns
StoreGet ==
    /\ pc = "api"
    /\ hist0' = history
    /\ view' = ViewOf(get_messages(history))
    /\ lastOp' = "get"
    /\ user_input' = NoText
    /\ data' = NoPayload
    /\ UNCHANGED history
    /\ StoreFrame

NextStore ==
    \/ \E role \in Roles, t \in StoreTexts : StoreAdd(role, t)
    \/ StoreClear
    \/ \E t \in StoreTexts : StoreBuild(t)
    \/ StoreGet

SpecStore == InitStore /\ [][NextStore]_vars

TypeOK ==
    /\ pc \in {"read", "attempt", "done", "crashed", "api"}
    /\ attempt \in 0..MAX_RETRIES
    /\ Len(history) <= 2 * (MaxPairs + 1) + MaxStoreLen

----------------------------------------------------------------------------
(* Properties *)

Is429(r) == r.kind = "response" /\ r.status = 429
Is200(r) == r.kind = "response" /\ r.status = 200

Returned == outcome.kind # "None"

Last(q) == q[Len(q)]

\* C1: starting from an empty history, after N exchanges that returned
\* generated text (no clear in between) the history has length 2N and holds,
\* in call order, the user turn with the k-th prompt followed by the model
\* turn with the k-th reply.
C1_HistoryIsThePairs ==
    /\ Len(history) = 2 * Len(log)
    /\ \A k \in 1..Len(log) :
          /\ history[2 * k - 1] = Turn("user", log[k].prompt)
          /\ history[2 * k] = Turn("model", log[k].reply)

C1_Witness ==
    /\ pc = "read"
    /\ Len(log) = 2
    /\ log[1].prompt # log[2].prompt
    /\ log[1].reply # log[2].reply
    /\ Len(history) = 4

C3_Claim ==
    /\ (Len(results) >= 3 /\ \A i \in 1..3 : Is429(results[i])) =>
          /\ outcome.kind = "RateLimited"
          /\ Len(sent) = 3
    /\ (Len(results) >= 2 /\ Is429(results[1]) /\ Is200(results[2])) =>
          /\ Len(results) = 2
          /\ Len(sent) = 2
          /\ Returned
          /\ outcome.kind \notin {"RateLimited", "NetworkError", "Fallback"}
          /\ sleeps = <<RATE_LIMIT_DELAY * 1>>

\* C4: a response whose status is neither 200 nor 429 ends the call at the
\* attempt where it arrives: no HTTP call and no sleep follow it, and the
\* outcome is ModelNotFound for 404 and HttpError(status, body) otherwise.
C4_OtherStatusIsTerminal ==
    \A i \in 1..Len(results) :
        (results[i].kind = "response" /\ results[i].status \notin {200, 429}) =>
            /\ i = Len(results)
            /\ Len(sent) = i
            /\ Len(sleeps) = i - 1
            /\ pc # "attempt"
            /\ IF results[i].status = 404
               THEN outcome.kind = "ModelNotFound"
               ELSE /\ outcome.kind = "HttpError"
                    /\ outcome.status = results[i].status
                    /\ outcome.body = results[i].body

C4_Witness ==
    /\ Len(results) = 2
    /\ Is429(results[1])
    /\ results[2].status = 500
    /\ results[2].body \in BadJson
    /\ outcome.kind = "HttpError"
    /\ Len(sent) = 2

\* C5: a 200 response whose body carries a block reason gives SafetyBlocked
\* and leaves the history unchanged, also when the body has candidates with
\* generated text.
C5_SafetyBlockFirst ==
    \A i \in 1..Len(results) :
        (Is200(results[i]) /\ results[i].body.json = "ok" /\ results[i].body.pf = "blocked") =>
            /\ i = Len(results)
            /\ outcome.kind = "SafetyBlocked"
            /\ history = hist0

C5_Witness ==
    /\ results # <<>>
    /\ Is200(Last(results))
    /\ Last(results).body.pf = "blocked"
    /\ Last(results).body.cand = "text"
    /\ TextLen(Last(results).body.text) > 0
    /\ outcome.kind = "SafetyBlocked"
    /\ hist0 # <<>>

\* C6: a 200 response without block reason whose candidates list is absent
\* or empty, or whose first candidate has an absent or empty parts list,
\* gives Empty and leaves the history unchanged.
C6_NoCandidateIsEmpty ==
    \A i \in 1..Len(results) :
        ( /\ Is200(results[i])
          /\ results[i].body.json = "ok"
          /\ results[i].body.pf # "blocked"
          /\ results[i].body.cand \in {"absent", "empty", "noparts", "emptyparts"} ) =>
            /\ i = Len(results)
            /\ outcome.kind = "Empty"
            /\ history = hist0

C6_Witness ==
    /\ results # <<>>
    /\ Is200(Last(results))
    /\ Last(results).body.pf = "noReason"
    /\ Last(results).body.cand = "emptyparts"
    /\ outcome.kind = "Empty"
    /\ hist0 # <<>>

\* C7: the payload built from history h and text t has len(h) + 1 entries,
\* the i-th with the role and text of the i-th turn, the last with role user
\* and text t; building it leaves the history as it was.
C7_PayloadIsHistoryPlusOne ==
    lastOp = "build" =>
        /\ Len(data.contents) = Len(hist0) + 1
        /\ \A i \in 1..Len(hist0) :
              data.contents[i] = [role |-> hist0[i].role, parts |-> << [text |-> hist0[i].text] >>]
        /\ Last(data.contents) = [role |-> "user", parts |-> << [text |-> user_input] >>]
        /\ history = hist0

C7_Witness ==
    /\ lastOp = "build"
    /\ Len(hist0) = MaxStoreLen
    /\ hist0[1].role = "model"
    /\ hist0[2].role = "model"
    /\ hist0[1].text # hist0[2].text
    /\ hist0[2].text # user_input

\* C8: after clear the store returns the empty sequence whatever it held,
\* and a clear that follows a clear changes nothing.
C8_ClearEmptiesAndIsIdempotent ==
    [][ lastOp' = "clear" =>
          /\ get_messages(history') = <<>>
          /\ (lastOp = "clear" => history' = history) ]_vars

C8_Witness ==
    /\ lastOp = "clear"
    /\ Len(hist0) = MaxStoreLen
    /\ history = <<>>

\* C9: a line longer than MAX_TOKENS after trimming causes no HTTP call and
\* leaves the history unchanged; a line of exactly MAX_TOKENS characters is
\* not rejected: the payload is built with it and posted.
C9_LengthGuard ==
    /\ TextLen(user_input) > MAX_TOKENS =>
          /\ pc \in {"read", "done"}
          /\ sent = <<>>
          /\ data = NoPayload
          /\ history = hist0
    /\ TextLen(user_input) = MAX_TOKENS =>
          /\ printed # "TooLong"
          /\ data = create_message_content(hist0, user_input)
          /\ pc = "read" => (sent # <<>> /\ sent[1] = data)

C9_Witness ==
    /\ TextLen(user_input) = MAX_TOKENS
    /\ pc = "read"
    /\ outcome.kind = "Success"
    /\ Len(history) = 4

\* C10 (as claimed): once a 200 response has arrived, no further HTTP call is
\* made in the call and the outcome is Success, SafetyBlocked or Empty,
\* whatever the body.
C10_Claim ==
    \A i \in 1..Len(results) :
        Is200(results[i]) =>
            /\ i = Len(results)
            /\ pc # "attempt"
            /\ outcome.kind \in {"Success", "SafetyBlocked", "Empty"}

\* C11: a transport failure at an attempt that is not the last is followed
\* by a sleep of exactly RATE_LIMIT_DELAY, whatever the attempt index; three
\* transport failures in one call give NetworkError after exactly three HTTP
\* calls and two sleeps.
C11_TransportRetry ==
    /\ \A i \in 1..Len(results) :
          (results[i].kind = "transport" /\ i < MAX_RETRIES) =>
              /\ Len(sleeps) >= i
              /\ sleeps[i] = RATE_LIMIT_DELAY
    /\ (Len(results) >= 3 /\ \A i \in 1..3 : results[i].kind = "transport") =>
          /\ outcome.kind = "NetworkError"
          /\ Len(results) = 3
          /\ Len(sent) = 3
          /\ sleeps = <<RATE_LIMIT_DELAY, RATE_LIMIT_DELAY>>

C11_Witness ==
    /\ Len(results) = 3
    /\ \A i \in 1..3 : results[i].kind = "transport"
    /\ outcome.kind = "NetworkError"
    /\ Len(sleeps) = 2
    /\ pc = "read"

\* C13 (as claimed): every 429, at 0-based attempt index i, is followed by a
\* sleep of RATE_LIMIT_DELAY * (i + 1), so that the 429 sleeps of a call are
\* 1s, 2s, 3s.
C13_Claim ==
    \A i \in 1..Len(results) :
        Is429(results[i]) =>
            /\ Len(sleeps) >= i
            /\ sleeps[i] = RATE_LIMIT_DELAY * i

\* C13 (amended): a 429 at 0-based attempt index i < MAX_RETRIES - 1 is
\* followed by a sleep of RATE_LIMIT_DELAY * (i + 1), earlier transport
\* failures counting in i; a 429 at the last attempt is followed by no sleep
\* and gives RateLimited, so the 429 sleeps of a call are 1s, 2s.
C13_BackoffSchedule ==
    \A i \in 1..Len(results) :
        Is429(results[i]) =>
            IF i < MAX_RETRIES
            THEN /\ Len(sleeps) >= i
                 /\ sleeps[i] = RATE_LIMIT_DELAY * i
                 /\ sleeps[i] \in {1, 2}
            ELSE /\ Len(sleeps) = i - 1
                 /\ outcome.kind = "RateLimited"

C13_Witness ==
    /\ Len(results) = 3
    /\ results[1].kind = "transport"
    /\ Is429(results[2])
    /\ Is429(results[3])
    /\ sleeps = <<1, 2>>
    /\ outcome.kind = "RateLimited"

\* C14 (as claimed): no model turn with empty text is ever in the history.
C14_Claim ==
    \A i \in 1..Len(history) :
        history[i].role = "model" => TextLen(history[i].text) > 0

\* C15 (as claimed): a call makes at least one and at most MAX_RETRIES HTTP
\* calls and ends at the first attempt whose result is neither a 429 nor a
\* transport failure.
C15_Claim ==
    /\ Len(sent) <= MAX_RETRIES
    /\ Returned => Len(sent) >= 1
    /\ \A i \in 1..Len(results) :
          (~Is429(results[i]) /\ results[i].kind # "transport") =>
              /\ i = Len(results)
              /\ pc # "attempt"
              /\ Returned

\* C16: a line that is empty after trimming, or is quit, exit or clear in any
\* letter case, causes no HTTP call: quit and exit end the loop, clear
\* empties the history and the loop goes on, an empty line changes nothing.
C16_CommandsMakeNoCall ==
    /\ TextLen(user_input) = 0 =>
          /\ sent = <<>>
          /\ data = NoPayload
          /\ history = hist0
          /\ pc \in {"read", "done"}
          /\ pc = "done" => printed = "Goodbye"
    /\ Lower(user_input) \in {Quit, Exit} =>
          /\ sent = <<>>
          /\ data = NoPayload
          /\ history = hist0
          /\ pc = "done"
    /\ Lower(user_input) = Clear =>
          /\ sent = <<>>
          /\ data = NoPayload
          /\ history = <<>>
          /\ \/ pc = "read" /\ printed = "Cleared"
             \/ pc = "done" /\ printed = "Goodbye"

C16_Witness ==
    /\ user_input = Text(<<"E", "X", "I", "T">>, 0)
    /\ pc = "done"
    /\ hist0 # <<>>
    /\ history = hist0
    /\ sent = <<>>

\* the successful exchanges since the last clear, as they were when the
\* current call started
LogAtCall == IF outcome.kind = "Success" THEN SubSeq(log, 1, Len(log) - 1) ELSE log

RECURSIVE Sum(_)
Sum(q) == IF q = <<>> THEN 0 ELSE Head(q) + Sum(Tail(q))

\* C19: when a call has returned, it has slept once less than it has posted:
\* a sleep happens only between two attempts; a call sleeps at most
\* MAX_RETRIES - 1 times and at most 3 * RATE_LIMIT_DELAY in total.
C19_SleepsBetweenAttempts ==
    /\ Returned => Len(sleeps) = Len(sent) - 1
    /\ pc = "attempt" => Len(sleeps) = Len(sent)
    /\ Len(sleeps) <= MAX_RETRIES - 1
    /\ Sum(sleeps) <= 3 * RATE_LIMIT_DELAY

C19_Witness ==
    /\ Returned
    /\ Len(sent) = 3
    /\ sleeps = <<1, 2>>
    /\ Sum(sleeps) = 3 * RATE_LIMIT_DELAY

\* C20: the fallback of line 120 is never returned: inside a call the loop
\* index stays below MAX_RETRIES, and the last attempt returns from inside
\* the loop.
C20_FallbackUnreachable ==
    /\ outcome.kind # "Fallback"
    /\ pc = "attempt" => attempt < MAX_RETRIES
    /\ Len(results) = MAX_RETRIES => Returned

C20_Witness ==
    /\ Len(results) = MAX_RETRIES
    /\ results[1].kind = "transport"
    /\ Is429(results[2])
    /\ results[3].kind = "transport"
    /\ outcome.kind = "NetworkError"

\* C12 (as claimed): what the holder of a sequence returned by get_messages
\* observes stays what it was when the sequence was returned, whatever
\* add_message and clear calls follow.
C12_Claim ==
    view.held => view.items = view.taken

\* C17 (as claimed): the loop ends only with the farewell of quit, exit or
\* the interrupt; after every outcome of get_response, and after every error
\* raised in an iteration, main is back at reading a line with the history
\* it had (plus the pair on Success), and no error leaves main.
C17_Claim ==
    /\ pc # "crashed"
    /\ pc = "done" => printed = "Goodbye"
    /\ (Returned /\ pc # "done") =>
          /\ pc = "read"
          /\ history = IF outcome.kind = "Success"
                       THEN hist0 \o <<Turn("user", user_input), Turn("model", outcome.text)>>
                       ELSE hist0
    /\ printed = "UnexpectedError" => pc = "read"

====
